---------------------------- MODULE Spec2Model ----------------------------
(***************************************************************************)
(* HyTwin water-treatment testbed: the single-tank plant simulator         *)
(* (plcexpsimulator.py), the dosing plant simulator (tanksim.py), the      *)
(* sensor-driven safety fuzzer (overflow_fuzzer.py), the attack            *)
(* evaluation (psy-taliro.py) and the trace monitor (samplemonitor.py).    *)
(* They are separate programs; each has its own specification over its     *)
(* own variable, the others stay idle.                                     *)
(*                                                                         *)
(* Numbers.  Python floats are modelled exactly where the values stay on   *)
(* a grid: PLCSim lengths and fuzzer values in hundredths (the register    *)
(* resolution), times in tenths or hundredths of a second, tanksim         *)
(* volumes and masses as normalised rationals <<n, d>> in millilitres.     *)
(* Where a double falls short of its decimal value and int() truncates     *)
(* it one unit low, the values concerned are tabulated (TruncatesLow,      *)
(* TruncatesLowFine) or both outcomes are taken (RangeEncodings).          *)
(***************************************************************************)
EXTENDS Integers, Sequences, FiniteSets, TLC

VARIABLES
    plc,    \* PLCSim object: flow_sensor, range_sensor, pump_state
    tank,   \* tanksim module globals, registers last written, last sample
    tenv,   \* tanksim's surroundings: what the PLC may still do to it
    fz,     \* SafetyFuzzer object, run_campaign/test_sequence locals, files
    env,    \* the fuzzer's surroundings: PLC pump coil, clock, fault budget
    atk,    \* psy-taliro: the trace under evaluation and the results
    sim,    \* PLCSim.run: position in the loop, clock, registers, trace file
    twin,   \* two runs of the plant updates fed the same inputs
    mon,    \* samplemonitor.monitor, format_trace_for_rtamt, create_safety_spec
    codec   \* one sensor value on its way into a register and back

vars == <<plc, tank, tenv, fz, env, atk, sim, twin, mon, codec>>

----------------------------------------------------------------------------
(* Helpers *)

Max(a, b) == IF a >= b THEN a ELSE b
Min(a, b) == IF a <= b THEN a ELSE b
Abs(a) == IF a < 0 THEN -a ELSE a

RECURSIVE GCD(_, _)
GCD(a, b) == IF b = 0 THEN a ELSE GCD(b, a % b)

----------------------------------------------------------------------------
(* PLCSim (plcexpsimulator.py) *)

\* range_sensor is held in register units: the resolution of
\* int(self.range_sensor * 100)
Scale == 100
\* dt is held in tenths of a second (run uses dt = 0.1)
TANK_CAPACITY == 50
FLOW_RATE == 2

\* Largest dt, in tenths of a second, handed to simulate_physics
MaxDt == 30
DtSet == 0..MaxDt

\* PLCSim.__init__: the state variables
PLCInit ==
    [flow_sensor |-> 0, range_sensor |-> TANK_CAPACITY * Scale, pump_state |-> FALSE]

\* FLOW_RATE * dt and 0.1 * dt in register units, dt in tenths of a second
InflowStep(dt) == (FLOW_RATE * dt * Scale) \div 10
LeakStep(dt) == (dt * Scale) \div 100

\* simulate_physics without any of its max/min (a plausible slip)
simulate_physics_unclamped(s, dt) ==
    [s EXCEPT !.flow_sensor = IF s.pump_state THEN 100 ELSE 0,
              !.range_sensor = IF s.pump_state
                                 THEN s.range_sensor - InflowStep(dt)
                                 ELSE s.range_sensor + LeakStep(dt)]

\* simulate_physics taking the time passed from the clock, not from dt
simulate_physics_wallclock(s, dt) ==
    LET passed == dt + twin.clock
        moved == IF s.pump_state
                   THEN Max(0, s.range_sensor - InflowStep(passed))
                   ELSE Min(TANK_CAPACITY * Scale, s.range_sensor + LeakStep(passed))
    IN [s EXCEPT !.flow_sensor = IF s.pump_state THEN 100 ELSE 0,
                 !.range_sensor = Max(0, Min(moved, TANK_CAPACITY * Scale))]

\* simulate_physics with the leak applied on every step, pump on or off
simulate_physics_leak_always(s, dt) ==
    LET filled == IF s.pump_state THEN Max(0, s.range_sensor - InflowStep(dt))
                  ELSE s.range_sensor
        moved == Min(TANK_CAPACITY * Scale, filled + LeakStep(dt))
    IN [s EXCEPT !.flow_sensor = IF s.pump_state THEN 100 ELSE 0,
                 !.range_sensor = Max(0, Min(moved, TANK_CAPACITY * Scale))]

\* PLCSim.simulate_physics(dt)
simulate_physics(s, dt) ==
    LET moved == IF s.pump_state
                   THEN Max(0, s.range_sensor - InflowStep(dt))
                   ELSE Min(TANK_CAPACITY * Scale, s.range_sensor + LeakStep(dt))
    IN [s EXCEPT !.flow_sensor = IF s.pump_state THEN 100 ELSE 0,
                 !.range_sensor = Max(0, Min(moved, TANK_CAPACITY * Scale))]

\* PLCSim.read_plc_outputs: the coil read succeeds with a bit, returns an
\* error response, or raises; only a successful read changes pump_state
ReadOutcomes == {"on", "off", "error", "exception"}
read_plc_outputs(s, res) ==
    IF res \in {"on", "off"} THEN [s EXCEPT !.pump_state = (res = "on")] ELSE s

----------------------------------------------------------------------------
(* Exact rationals <<n, d>>, d > 0, in lowest terms *)

RNorm(n, d) == LET g == GCD(Abs(n), d) IN <<n \div g, d \div g>>
R(n) == <<n, 1>>
RLcm(a, b) == (a[2] \div GCD(a[2], b[2])) * b[2]
RAdd(a, b) ==
    LET l == RLcm(a, b)
    IN RNorm(a[1] * (l \div a[2]) + b[1] * (l \div b[2]), l)
RNeg(a) == <<0 - a[1], a[2]>>
RSub(a, b) == RAdd(a, RNeg(b))
RMul(a, b) ==
    LET g1 == GCD(Abs(a[1]), b[2])
        g2 == GCD(Abs(b[1]), a[2])
    IN <<(a[1] \div g1) * (b[1] \div g2), (a[2] \div g2) * (b[2] \div g1)>>
\* a / b for b # 0
RDiv(a, b) ==
    IF b[1] > 0 THEN RMul(a, <<b[2], b[1]>>) ELSE RMul(a, <<0 - b[2], 0 - b[1]>>)
RLt(a, b) == LET l == RLcm(a, b) IN a[1] * (l \div a[2]) < b[1] * (l \div b[2])
RLe(a, b) == ~RLt(b, a)
\* Python int(): truncation toward zero
RInt(a) == IF a[1] >= 0 THEN a[1] \div a[2] ELSE 0 - ((0 - a[1]) \div a[2])

----------------------------------------------------------------------------
(* tanksim (tanksim.py) *)

TANK_VOLUME_ML == 900
DOSE_VOLUME_ML == 5
fill_rate_mlph == 45000

\* fill_rate_mlph / 3600: the volume the pump adds per tick
FillPerTick == RNorm(fill_rate_mlph, 3600)
Half == <<1, 2>>


\* How many ticks are followed, in how many of them the PLC may run a doser,
\* how many may see a failed call, how many may overflow
MaxTicks == 4
MaxDoseTicks == 2
MaxFailTicks == 2
MaxOverflowTicks == 1

\* Module-level initial state (lines 31-44).  io holds the responses of the
\* latest tick and last how that tick ended: "sample" (registers written,
\* trace line written), "skipped" (line 108), "raised" (an exception left
\* the loop; wrote tells whether the registers had been written)
TankInit ==
    [step |-> 0, water_volume_ml |-> R(0), range_sensor |-> R(100),
     red_ml |-> R(0), blue_ml |-> R(0),
     red_concentration |-> R(0), blue_concentration |-> R(0),
     dosing_complete |-> FALSE, settling_timer |-> FALSE, filling_stage |-> 0,
     treatment_complete |-> FALSE,
     io |-> <<>>, last |-> "none", wrote |-> FALSE, running |-> TRUE,
     trace_file_open |-> TRUE, client_open |-> TRUE]

\* What the PLC's treatment program shows in one scan: the doser coils,
\* treatment_complete and the stage register.  It doses while filling
\* (stage 0), then settles (stage 4), then reports the treatment complete.
PlcScans ==
    [dosers : {"none", "red", "blue", "both"}, complete : {"off"}, stage : {0}]
    \cup [dosers : {"none"}, complete : {"off", "on"}, stage : {4}]

\* One tick's responses: the pump coil and the scan.  reads is "ok" or names
\* the read of lines 61-63 that returned an error response; exc names the call
\* that raised, if any.  A response that was never looked at is "-".
TankInputs ==
    { [pump |-> p, reads |-> "ok", dosers |-> sc.dosers, complete |-> sc.complete,
       stage |-> sc.stage, exc |-> x] :
         p \in {"on", "off", "error"}, sc \in PlcScans, x \in {"none", "write"} }
    \cup
    [pump : {"on", "off", "error"},
     reads : {"doser_error", "complete_error", "stage_error"},
     dosers : {"-"}, complete : {"-"}, stage : {0}, exc : {"none"}]
    \cup
    [pump : {"on", "off", "error"}, reads : {"-"},
     dosers : {"-"}, complete : {"-"}, stage : {0}, exc : {"reads"}]
    \cup
    [pump : {"-"}, reads : {"-"},
     dosers : {"-"}, complete : {"-"}, stage : {0}, exc : {"pump"}]

RedDose(in) == in.dosers \in {"red", "both"}
BlueDose(in) == in.dosers \in {"blue", "both"}

\* line 65
ReadsOk(in) == in.reads = "ok"

\* line 54
RangeOf(volume) ==
    RMul(R(100), RSub(R(1), RDiv(volume, R(TANK_VOLUME_ML))))

\* lines 57-58: the pump's addition, made whatever the later reads return
pump_fill(t, in) ==
    IF in.pump = "on"
      THEN [t EXCEPT !.water_volume_ml = RAdd(@, FillPerTick)]
      ELSE t

\* lines 77-82: each active doser adds DOSE_VOLUME_ML to its mass and to
\* the volume
dosing(t, in) ==
    LET r == IF RedDose(in)
               THEN [t EXCEPT !.red_ml = RAdd(@, R(DOSE_VOLUME_ML)),
                              !.water_volume_ml = RAdd(@, R(DOSE_VOLUME_ML))]
               ELSE t
    IN IF BlueDose(in)
         THEN [r EXCEPT !.blue_ml = RAdd(@, R(DOSE_VOLUME_ML)),
                        !.water_volume_ml = RAdd(@, R(DOSE_VOLUME_ML))]
         ELSE r

\* overflow_handling with the volume capped before the overflow is taken
overflow_handling_cap_first(t) ==
    IF RLt(R(TANK_VOLUME_ML), t.water_volume_ml)
      THEN LET capped == R(TANK_VOLUME_ML)
               overflow == RSub(capped, R(TANK_VOLUME_ML))
           IN [t EXCEPT
                 !.red_ml = RSub(@, RMul(Half, RMul(overflow, t.red_concentration))),
                 !.blue_ml = RSub(@, RMul(Half, RMul(overflow, t.blue_concentration))),
                 !.water_volume_ml = capped]
      ELSE t

\* lines 85-89
overflow_handling(t) ==
    IF RLt(R(TANK_VOLUME_ML), t.water_volume_ml)
      THEN LET overflow == RSub(t.water_volume_ml, R(TANK_VOLUME_ML))
           IN [t EXCEPT
                 !.red_ml = RSub(@, RMul(Half, RMul(overflow, t.red_concentration))),
                 !.blue_ml = RSub(@, RMul(Half, RMul(overflow, t.blue_concentration))),
                 !.water_volume_ml = R(TANK_VOLUME_ML)]
      ELSE t

\* lines 92-94
update_concentrations(t) ==
    IF RLt(R(0), t.water_volume_ml)
      THEN [t EXCEPT !.red_concentration = RDiv(t.red_ml, t.water_volume_ml),
                     !.blue_concentration = RDiv(t.blue_ml, t.water_volume_ml)]
      ELSE t

\* lines 97-98: the values handed to write_registers (in state t, the
\* values written by the latest tick when t.wrote)
RegisterValues(t) ==
    [red_RGB |-> RInt(RMul(t.red_concentration, R(255))),
     green_RGB |-> 0,
     blue_RGB |-> RInt(RMul(t.blue_concentration, R(255))),
     range_sensor |-> RInt(RMul(t.range_sensor, R(100)))]

\* A client that would encode any integer
WritesUnchecked(r) == TRUE

\* A holding register is 16 bits wide: the client cannot encode anything else
Fits16(v) == v >= 0 /\ v <= 65535
WritesEncodable(r) ==
    Fits16(r.red_RGB) /\ Fits16(r.blue_RGB) /\ Fits16(r.range_sensor)

\* lines 101-103: the trace line (with t.io, the line the latest tick
\* wrote when t.last = "sample")
SampleOf(t, in) ==
    [Water_Volume_ml |-> t.water_volume_ml,
     Red_Concentration |-> RMul(t.red_concentration, R(255)),
     Blue_Concentration |-> RMul(t.blue_concentration, R(255)),
     Pump_State |-> (in.pump = "on"),
     Red_Doser |-> RedDose(in), Blue_Doser |-> BlueDose(in),
     Range_Sensor |-> t.range_sensor,
     Treatment_Complete |-> t.treatment_complete,
     Dosing_Complete |-> t.dosing_complete,
     Settling_Timer |-> t.settling_timer,
     Filling_Stage |-> t.filling_stage]

\* An exception other than KeyboardInterrupt leaves the loop and the with
\* block, which closes the trace file, and ends the program before line 115
raised(t) ==
    [t EXCEPT !.last = "raised", !.running = FALSE, !.trace_file_open = FALSE]

\* lines 65-104, the branch taken when all three reads succeeded
tick_success(t, in) ==
    LET read == [t EXCEPT !.treatment_complete = (in.complete = "on"),
                          !.filling_stage = in.stage,
                          !.dosing_complete = ~RedDose(in) /\ ~BlueDose(in),
                          !.settling_timer = (in.stage = 4)]
        done == update_concentrations(overflow_handling(dosing(read, in)))
        vals == RegisterValues(done)
    IN IF in.exc = "write" \/ ~WritesEncodable(vals)
         \* write_registers raised: nothing but KeyboardInterrupt is caught
         THEN raised(done)
         ELSE IF in.pump = "error"
           \* line 102 reads pump_result.bits of an error response
           THEN raised([done EXCEPT !.wrote = TRUE])
           ELSE [done EXCEPT !.wrote = TRUE, !.last = "sample"]

\* lines 52-110: one iteration of the while loop
tank_tick(t, in) ==
    LET t0 == [t EXCEPT !.step = @ + 1, !.wrote = FALSE,
                        !.range_sensor = RangeOf(t.water_volume_ml), !.io = in]
        t1 == pump_fill(t0, in)
    IN IF in.exc = "pump"
         THEN raised(t0)
         ELSE IF in.exc = "reads"
           THEN raised(t1)
           ELSE IF ReadsOk(in)
             THEN tick_success(t1, in)
             ELSE [t1 EXCEPT !.last = "skipped"]


\* The plant as n ticks leave it when the pump coil reads on, the dosers
\* and treatment_complete read off and the stage reads 0
FillInput ==
    [pump |-> "on", reads |-> "ok", dosers |-> "none", complete |-> "off",
     stage |-> 0, exc |-> "none"]
Filled(n) ==
    IF n = 0 THEN TankInit
    ELSE [TankInit EXCEPT
            !.step = n,
            !.water_volume_ml = RMul(R(n), FillPerTick),
            !.range_sensor = RangeOf(RMul(R(n - 1), FillPerTick)),
            !.dosing_complete = TRUE,
            !.io = FillInput, !.last = "sample", !.wrote = TRUE]

\* The pump alone fills the tank in MaxFill ticks; the runs start at a fresh
\* plant or at one the pump has nearly filled
MaxFill == (TANK_VOLUME_ML * FillPerTick[2]) \div FillPerTick[1]
FillTicks == {0, MaxFill - 2, MaxFill - 1, MaxFill}

\* Filled(n) is what n such ticks make of the initial state
FilledIsReached ==
    \A n \in 0..(MaxFill - 1) : tank_tick(Filled(n), FillInput) = Filled(n + 1)

\* The plant as n ticks leave it when the red doser coil reads on and the
\* pump, the blue doser and treatment_complete read off: dye only
DoseInput ==
    [pump |-> "off", reads |-> "ok", dosers |-> "red", complete |-> "off",
     stage |-> 0, exc |-> "none"]
Dosed(n) ==
    IF n = 0 THEN TankInit
    ELSE [TankInit EXCEPT
            !.step = n,
            !.water_volume_ml = R(n * DOSE_VOLUME_ML),
            !.red_ml = R(n * DOSE_VOLUME_ML),
            !.red_concentration = R(1),
            !.range_sensor = RangeOf(R((n - 1) * DOSE_VOLUME_ML)),
            !.io = DoseInput, !.last = "sample", !.wrote = TRUE]

\* The red doser alone fills the tank in MaxDose ticks
MaxDose == TANK_VOLUME_ML \div DOSE_VOLUME_ML

\* Dosed(n) is what n such ticks make of the initial state
DosedIsReached ==
    \A n \in 0..(MaxDose - 1) : tank_tick(Dosed(n), DoseInput) = Dosed(n + 1)

\* What the surroundings have done so far: ticks with a doser on, ticks with
\* a failed call, ticks that overflowed
TenvInit == [ticks |-> 0, dose |-> 0, fail |-> 0, overflow |-> 0]

Failed(in) == in.pump = "error" \/ in.reads \notin {"ok", "-"} \/ in.exc # "none"
Doses(in) == RedDose(in) \/ BlueDose(in)
\* The tick reaches line 85 with more than the tank holds
Overflows(t, in) ==
    /\ in.exc \in {"none", "write"}
    /\ ReadsOk(in)
    /\ RLt(R(TANK_VOLUME_ML), dosing(pump_fill(t, in), in).water_volume_ml)

\* One iteration of the while loop (lines 51-110)
TankTick ==
    /\ tank.running
    /\ \E in \in TankInputs :
         LET d == IF Doses(in) THEN 1 ELSE 0
             f == IF Failed(in) THEN 1 ELSE 0
             o == IF Overflows(tank, in) THEN 1 ELSE 0
         IN /\ tenv.ticks < MaxTicks
            /\ tenv.dose + d <= MaxDoseTicks
            /\ tenv.fail + f <= MaxFailTicks
            /\ tenv.overflow + o <= MaxOverflowTicks
            /\ tank' = tank_tick(tank, in)
            /\ tenv' = [ticks |-> tenv.ticks + 1, dose |-> tenv.dose + d,
                        fail |-> tenv.fail + f, overflow |-> tenv.overflow + o]
    /\ UNCHANGED <<plc, fz, env, atk, sim, twin, mon, codec>>

\* Ctrl-C during the loop (lines 112-113): the with block closes the trace
\* file, then line 115 closes the client
TankInterrupt ==
    /\ tank.running
    /\ tank' = [tank EXCEPT !.running = FALSE, !.last = "interrupted",
                            !.trace_file_open = FALSE, !.client_open = FALSE]
    /\ UNCHANGED <<plc, tenv, fz, env, atk, sim, twin, mon, codec>>

----------------------------------------------------------------------------
(* SafetyFuzzer (overflow_fuzzer.py) *)

DESIRED_DISTANCE == 10
\* test_sequence's default duration, in tenths of a second
Duration == 50
\* time.sleep(0.2), time.sleep(0.1), time.sleep(1), in tenths of a second
SleepAfterWrite == 2
SleepAfterValue == 1
SleepAfterIteration == 10

\* lines 87-96, in hundredths
test_sequences ==
    << <<900, 1000, 1100, 1200, 1300>>,
       <<1500, 2000, 2500, 3000>>,
       <<950, 1050, 980, 1020, 1080>>,
       <<500, 1500, 800, 1200, 700, 1100>> >>

\* The values v (hundredths, on the 0.1 grid of 0..110) whose double product
\* (v/100)*100 lies just below the integer v, so that int() yields v - 1
TruncatesLow ==
    {230, 410, 460, 510, 820, 870, 920, 970, 1020, 1640, 1690, 1740, 1790,
     1840, 1890, 1940, 1990, 2040, 3230, 3280, 3330, 3380, 3430, 3480, 3530,
     3580, 3630, 3680, 3730, 3780, 3830, 3880, 3930, 3980, 4030, 4080, 6410,
     6460, 6510, 6560, 6610, 6660, 6710, 6760, 6810, 6860, 6910, 6960, 7010,
     7060, 7110, 7160, 7210, 7260, 7310, 7360, 7410, 7460, 7510, 7560, 7610,
     7660, 7710, 7760, 7810, 7860, 7910, 7960, 8010, 8060, 8110, 8160}

\* line 44: register_value = int(value * 100)
register_value(v) == IF v \in TruncatesLow THEN v - 1 ELSE v

\* How many campaign iterations are asked for at most, how many times the
\* surroundings may act up in a campaign (a failed call, a change of the
\* pump coil, a stall), how long a stall lasts (tenths of a second)
MaxIterations == 1
MaxEnvEvents == 1
StallTime == 30

\* SafetyFuzzer.__init__ (files opened, headers written) and the locals of
\* run_campaign and test_sequence.  The trace and violation files are
\* append-only and flushed line by line: trace_file and violation_file hold
\* the lines of the current test_sequence call, trace_before and
\* violation_before count the lines written before it (the header first).
\* checked, cut and failed_writes are history: the samples handed to
\* check_safety_violation in the current call, the sequences whose loop
\* it left by the break of line 103, and the values whose register write
\* raised.
FzInit ==
    [pc |-> "start", iterations |-> 0, i |-> 0, seq_num |-> 0, idx |-> 1,
     violations |-> <<>>, total_violations |-> <<>>, start_time |-> 0,
     trace_file |-> <<>>, trace_before |-> 1,
     violation_file |-> <<>>, violation_before |-> 1,
     summary_file |-> <<>>,
     files_open |-> TRUE, client_open |-> TRUE, register |-> -1,
     checked |-> <<>>, cut |-> {}, failed_writes |-> <<>>]

\* The PLC's pump coil, the clock (tenths of a second), and what the
\* surroundings have done so far
EnvInits ==
    [pump_coil : BOOLEAN, now : {0}, faults : {0}, toggles : {0}, stalls : {0}]

EnvEvents(e) == e.faults + e.toggles + e.stalls

\* A coil read returns the bit, returns an error response, or raises
CoilOutcomes == {"ok", "error", "exception"}
\* A register write succeeds, is answered by an error response (which
\* write_range_sensor does not look at), or raises
WriteOutcomes == {"ok", "error", "exception"}

\* lines 52-59, for a coil read that did not raise
log_trace(f, e, event, range_sensor, extra, res) ==
    [f EXCEPT !.trace_file =
        Append(@, [ts |-> e.now, event |-> event, range_sensor |-> range_sensor,
                   pump_state |-> IF res = "error" THEN "ERROR"
                                  ELSE IF e.pump_coil THEN "True" ELSE "False",
                   extra |-> extra])]

\* log_violation that logs only the first of a run of consecutive violating
\* samples (f.checked ends with the sample being logged)
log_violation_debounced(f, violation) ==
    LET n == Len(f.checked)
    IN IF n > 1 /\ f.checked[n - 1].returned = "violation"
         THEN f
         ELSE [f EXCEPT !.violation_file =
                 Append(@, <<violation.timestamp, violation.range_sensor,
                             violation.pump_state, violation.description>>)]

\* lines 61-67
log_violation(f, violation) ==
    [f EXCEPT !.violation_file =
        Append(@, <<violation.timestamp, violation.range_sensor,
                    violation.pump_state, violation.description>>)]

\* line 71 with >= for >
is_violation_inclusive(range_sensor, pump_state) ==
    range_sensor >= DESIRED_DISTANCE * Scale /\ pump_state

\* line 71
is_violation(range_sensor, pump_state) ==
    range_sensor > DESIRED_DISTANCE * Scale /\ pump_state

\* lines 72-77
SafetyViolation(ts, range_sensor, pump_state) ==
    [timestamp |-> ts, range_sensor |-> range_sensor, pump_state |-> pump_state,
     description |-> <<"VIOLATION: Pump ON when range_sensor > DESIRED_DISTANCE",
                       range_sensor, DESIRED_DISTANCE>>]

\* lines 69-80 together with lines 113-114 of the caller: the violation, if
\* any, is logged and joins the caller's list
check_safety_violation(f, ts, range_sensor, pump_state) ==
    LET g == [f EXCEPT !.checked =
                Append(@, [seq_num |-> f.seq_num, range_sensor |-> range_sensor,
                           pump_state |-> pump_state,
                           returned |-> IF is_violation(range_sensor, pump_state)
                                          THEN "violation" ELSE "None"])]
    IN IF is_violation(range_sensor, pump_state)
         THEN LET violation == SafetyViolation(ts, range_sensor, pump_state)
              IN [log_violation(g, violation) EXCEPT
                    !.violations = Append(@, violation)]
         ELSE g

\* lines 41-50.  w is the outcome of write_registers, r1 of the coil read
\* of the first log_trace call, r2 of the coil read of the log_trace call
\* in the except branch when the first one raised.  ret is what the call
\* returns, or "raise" when the exception leaves it.
write_range_sensor(f, e, value, w, r1, r2) ==
    LET written == IF w = "ok" THEN [f EXCEPT !.register = register_value(value)]
                   ELSE f
        failed == [f EXCEPT !.failed_writes =
                     Append(@, [seq_num |-> f.seq_num, value |-> value])]
    IN IF w = "exception"
         THEN IF r1 = "exception"
                THEN [f |-> failed, ret |-> "raise"]
                ELSE [f |-> log_trace(failed, e, "ERROR", value, <<"exception">>, r1),
                      ret |-> "False"]
         ELSE IF r1 # "exception"
           THEN [f |-> log_trace(written, e, "WRITE", value, <<>>, r1),
                 ret |-> "True"]
           ELSE IF r2 = "exception"
             THEN [f |-> written, ret |-> "raise"]
             ELSE [f |-> log_trace(written, e, "ERROR", value, <<"exception">>, r2),
                   ret |-> "False"]

\* The outcomes of one pass through the loop body: the register write, the
\* coil reads of log_trace, whether the PLC switches the pump coil while
\* the fuzzer sleeps after the write, and the coil read of line 108.  A
\* call that is not made is "-".
BodyOutcomes ==
    { o \in [w : WriteOutcomes, r1 : CoilOutcomes, r2 : CoilOutcomes \cup {"-"},
             toggle : BOOLEAN, r3 : CoilOutcomes \cup {"-"}] :
        LET second == o.w # "exception" /\ o.r1 = "exception"
            true == o.w # "exception" /\ o.r1 # "exception"
        IN /\ (o.r2 # "-") = second
           /\ (o.r3 # "-") = true
           /\ o.toggle => true }

BodyFaults(o) ==
    Cardinality({k \in {"w", "r1", "r2", "r3"} : o[k] \notin {"ok", "-"}})

\* How many times the surroundings act up in one pass: a register write that
\* raises and the coil read of its except branch (line 49, line 54) that
\* raises right after it are one outage of the connection
BodyEvents(o) ==
    IF o.w = "exception" /\ o.r1 = "exception" THEN 1 ELSE BodyFaults(o)

\* lines 102-116 for one value whose turn has come before the duration ran
\* out; pc "except" is the handler of run_campaign
loop_body(f, e, value, o) ==
    LET wr == write_range_sensor(f, e, value, o.w, o.r1, o.r2)
        e1 == [e EXCEPT !.faults = @ + BodyFaults(o),
                        !.toggles = @ + (IF o.toggle THEN 1 ELSE 0)]
    IN IF wr.ret = "raise"
         THEN [f |-> [wr.f EXCEPT !.pc = "except"], e |-> e1]
         ELSE IF wr.ret = "False"
           THEN [f |-> [wr.f EXCEPT !.idx = @ + 1],
                 e |-> [e1 EXCEPT !.now = @ + SleepAfterValue]]
           ELSE LET e2 == [e1 EXCEPT !.now = @ + SleepAfterWrite,
                                     !.pump_coil = (@ # o.toggle)]
                    e3 == [e2 EXCEPT !.now = @ + SleepAfterValue]
                IN IF o.r3 = "exception"
                     THEN [f |-> [wr.f EXCEPT !.pc = "except"], e |-> e2]
                     ELSE IF o.r3 = "error"
                       THEN [f |-> [wr.f EXCEPT !.idx = @ + 1], e |-> e3]
                       ELSE [f |-> [check_safety_violation(wr.f, e2.now, value,
                                                           e2.pump_coil)
                                      EXCEPT !.idx = @ + 1],
                             e |-> e3]

Sequence(f) == test_sequences[f.seq_num + 1]
Expired(f, e) == e.now - f.start_time > Duration

\* run_campaign up to the for loop (lines 125-130)
RunCampaign ==
    /\ fz.pc = "start"
    /\ \E n \in 1..MaxIterations :
         fz' = [fz EXCEPT !.pc = "iter", !.iterations = n, !.i = 0,
                          !.total_violations = <<>>,
                          !.summary_file = Append(@, <<"Fuzzing Campaign Summary">>)]
    /\ UNCHANGED <<plc, tank, tenv, env, atk, sim, twin, mon, codec>>

\* line 134 calls test_sequence: lines 84-85
TestSequenceBegin ==
    /\ fz.pc = "iter" /\ fz.i < fz.iterations
    /\ fz' = [fz EXCEPT !.pc = "seq_start", !.violations = <<>>,
                        !.start_time = env.now, !.seq_num = 0, !.idx = 1,
                        !.checked = <<>>, !.cut = {}, !.failed_writes = <<>>,
                        !.trace_file = <<>>,
                        !.trace_before = @ + Len(fz.trace_file),
                        !.violation_file = <<>>,
                        !.violation_before = @ + Len(fz.violation_file)]
    /\ UNCHANGED <<plc, tank, tenv, env, atk, sim, twin, mon, codec>>

\* The fuzzer is held up (a slow connection, a busy host) before a sequence
EnvStall ==
    /\ fz.pc = "seq_start" /\ fz.seq_num < Len(test_sequences)
    /\ EnvEvents(env) < MaxEnvEvents
    /\ env' = [env EXCEPT !.now = @ + StallTime, !.stalls = @ + 1]
    /\ UNCHANGED <<plc, tank, tenv, fz, atk, sim, twin, mon, codec>>

\* line 99
StartSequence ==
    /\ fz.pc = "seq_start" /\ fz.seq_num < Len(test_sequences)
    /\ \E r \in CoilOutcomes :
         /\ r # "ok" => EnvEvents(env) < MaxEnvEvents
         /\ fz' = IF r = "exception" THEN [fz EXCEPT !.pc = "except"]
                  ELSE [log_trace(fz, env, "START_SEQUENCE", 0,
                                  <<"Sequence", fz.seq_num + 1>>, r)
                          EXCEPT !.pc = "values", !.idx = 1]
         /\ env' = [env EXCEPT !.faults = @ + (IF r = "ok" THEN 0 ELSE 1)]
    /\ UNCHANGED <<plc, tank, tenv, atk, sim, twin, mon, codec>>

\* lines 101-116 for the next value of the sequence
ProcessValue ==
    /\ fz.pc = "values" /\ fz.idx <= Len(Sequence(fz)) /\ ~Expired(fz, env)
    /\ \E o \in BodyOutcomes :
         /\ EnvEvents(env) + BodyEvents(o) + (IF o.toggle THEN 1 ELSE 0)
              <= MaxEnvEvents
         /\ LET next == loop_body(fz, env, Sequence(fz)[fz.idx], o)
            IN fz' = next.f /\ env' = next.e
    /\ UNCHANGED <<plc, tank, tenv, atk, sim, twin, mon, codec>>

\* The inner loop ends, exhausted or by the break of line 103, and line 118
\* logs the end of the sequence
end_sequence(f, e, r) ==
    LET left == IF f.idx <= Len(Sequence(f))
                  THEN [f EXCEPT !.cut = @ \cup {f.seq_num + 1}]
                  ELSE f
    IN IF r = "exception" THEN [left EXCEPT !.pc = "except"]
       ELSE [log_trace(left, e, "END_SEQUENCE", 0,
                       <<"Sequence complete", f.seq_num + 1>>, r)
               EXCEPT !.pc = "seq_start", !.seq_num = @ + 1]

EndSequence ==
    /\ fz.pc = "values"
    /\ fz.idx > Len(Sequence(fz)) \/ Expired(fz, env)
    /\ \E r \in CoilOutcomes :
         /\ r # "ok" => EnvEvents(env) < MaxEnvEvents
         /\ fz' = end_sequence(fz, env, r)
         /\ env' = [env EXCEPT !.faults = @ + (IF r = "ok" THEN 0 ELSE 1)]
    /\ UNCHANGED <<plc, tank, tenv, atk, sim, twin, mon, codec>>

\* test_sequence returns (line 120); lines 135-143
IterationSummary ==
    /\ fz.pc = "seq_start" /\ fz.seq_num = Len(test_sequences)
    /\ fz' = [fz EXCEPT !.pc = "iter", !.i = @ + 1,
                        !.total_violations = @ \o fz.violations,
                        !.summary_file =
                           Append(@, <<"Iteration Results", fz.i + 1,
                                       Len(fz.violations)>>)]
    /\ env' = [env EXCEPT !.now = @ + SleepAfterIteration]
    /\ UNCHANGED <<plc, tank, tenv, atk, sim, twin, mon, codec>>

\* lines 145-157
FinalSummary ==
    /\ fz.pc = "iter" /\ fz.i = fz.iterations
    /\ fz' = [fz EXCEPT !.pc = "finally",
                        !.summary_file =
                           Append(@, <<"Final Campaign Results", fz.iterations,
                                       Len(fz.total_violations),
                                       fz.total_violations>>)]
    /\ UNCHANGED <<plc, tank, tenv, env, atk, sim, twin, mon, codec>>

\* lines 159-162
ExceptHandler ==
    /\ fz.pc = "except"
    /\ fz' = [fz EXCEPT !.pc = "finally",
                        !.summary_file = Append(@, <<"Error during fuzzing">>)]
    /\ UNCHANGED <<plc, tank, tenv, env, atk, sim, twin, mon, codec>>

\* lines 164-168
Finally ==
    /\ fz.pc = "finally"
    /\ fz' = [fz EXCEPT !.pc = "done", !.files_open = FALSE, !.client_open = FALSE]
    /\ UNCHANGED <<plc, tank, tenv, env, atk, sim, twin, mon, codec>>

----------------------------------------------------------------------------
(* SafetyFuzzer.check_safety_violation applied to any sample *)

\* How far around DESIRED_DISTANCE the samples lie (hundredths), and how
\* many are checked in a row
MaxEps == 25
MaxChecks == 1
CheckValues ==
    (DESIRED_DISTANCE * Scale - MaxEps)..(DESIRED_DISTANCE * Scale + MaxEps)

CheckSample ==
    /\ Len(fz.checked) < MaxChecks
    /\ \E v \in CheckValues, p \in BOOLEAN :
         fz' = check_safety_violation(fz, env.now, v, p)
    /\ UNCHANGED <<plc, tank, tenv, env, atk, sim, twin, mon, codec>>

----------------------------------------------------------------------------
(* psy-taliro.py *)

\* main: WaterSystemAttacks(H=10, HH=100, LL=0); evaluate_attack's defaults
H == 10
HH == 100
LL == 0
penalty_factor == 10
\* always[0,100]
WindowEnd == 100

\* Longest trace, in samples
MaxSamples == 2

\* x2, P1 and V1 in hundredths: levels at 0, below, at and above H, at and
\* above HH; actuators off (0.0) or on (1.0)
X2Values == {0, 5 * Scale, H * Scale, 15 * Scale, HH * Scale, HH * Scale + 5 * Scale}
ActuatorValues == {0, Scale}
Samples == [x2 : X2Values, P1 : ActuatorValues, V1 : ActuatorValues]
Traces == UNION { [1..n -> Samples] : n \in 1..MaxSamples }

\* 0.9 in hundredths
OnLevel == (9 * Scale) \div 10

\* Robustness of the safe behaviour of lines 46-49 at one sample with the
\* valve condition left out: (x2 < H) implies (P1 >= 0.9)
safe_behavior_pump_only(s) ==
    Min(Min(HH * Scale - s.x2, s.x2 - LL * Scale),
        Max(0 - (H * Scale - s.x2), s.P1 - OnLevel))

\* Robustness of the safe behaviour of lines 46-49 at one sample:
\* (x2 <= HH and x2 >= LL) and ((x2 < H) implies (P1 >= 0.9 and V1 >= 0.9));
\* and is min, implies is max of the negated premise and the conclusion
safe_behavior(s) ==
    Min(Min(HH * Scale - s.x2, s.x2 - LL * Scale),
        Max(0 - (H * Scale - s.x2), Min(s.P1 - OnLevel, s.V1 - OnLevel)))

RECURSIVE MinOver(_, _)
MinOver(trace, n) ==
    IF n = 1 THEN safe_behavior(trace[1])
    ELSE Min(MinOver(trace, n - 1), safe_behavior(trace[n]))

\* Robustness at time 0 of the formula of line 51, not(always[0,100](safe)),
\* over samples 0..100 of the trace
safety_spec_robustness(trace) ==
    0 - MinOver(trace, Min(Len(trace), WindowEnd + 1))

\* lines 76-80: the samples with x2 # 0
RECURSIVE AttackSamples(_, _)
AttackSamples(trace, n) ==
    IF n = 0 THEN <<>>
    ELSE IF trace[n].x2 # 0
      THEN Append(AttackSamples(trace, n - 1), trace[n].x2)
      ELSE AttackSamples(trace, n - 1)

\* evaluate_attack counting a sample as attacked only while the pump P1 is on
evaluate_attack_pump_on(trace) ==
    LET Attacked(s) == s.x2 # 0 /\ s.P1 # 0
        attacked == SelectSeq(trace, Attacked)
        attack_duration == Len(attacked)
        distance ==
            IF attack_duration > 0
              THEN LET last_attack_timestep == attacked[attack_duration].x2
                   IN IF last_attack_timestep < HH * Scale
                        THEN HH * Scale - last_attack_timestep
                        ELSE (last_attack_timestep - HH * Scale)
                               + penalty_factor * Scale
              ELSE 0
        duration_score == RNorm(attack_duration, Len(trace))
        safety_violation_score == RNorm(distance, (HH - LL) * Scale)
    IN [duration_score |-> duration_score,
        safety_violation_score |-> safety_violation_score,
        robustness |-> RNeg(RMul(duration_score, safety_violation_score))]

\* lines 72-101, with HH, LL and penalty_factor at their defaults
evaluate_attack(trace) ==
    LET attacked == AttackSamples(trace, Len(trace))
        attack_duration == Len(attacked)
        distance ==
            IF attack_duration > 0
              THEN LET last_attack_timestep == attacked[attack_duration]
                   IN IF last_attack_timestep < HH * Scale
                        THEN HH * Scale - last_attack_timestep
                        ELSE (last_attack_timestep - HH * Scale)
                               + penalty_factor * Scale
              ELSE 0
        duration_score == RNorm(attack_duration, Len(trace))
        safety_violation_score == RNorm(distance, (HH - LL) * Scale)
    IN [duration_score |-> duration_score,
        safety_violation_score |-> safety_violation_score,
        robustness |-> RNeg(RMul(duration_score, safety_violation_score))]

AtkInits ==
    [trace : Traces, evaluated : {FALSE}, metrics : {<<>>},
     monitored : {FALSE}, spec_robustness : {0}]

\* main, lines 157-161
EvaluateAttack ==
    /\ ~atk.evaluated
    /\ atk' = [atk EXCEPT !.evaluated = TRUE, !.metrics = evaluate_attack(atk.trace)]
    /\ UNCHANGED <<plc, tank, tenv, fz, env, sim, twin, mon, codec>>

\* The specification create_safety_spec returns, evaluated on the trace
MonitorSafetySpec ==
    /\ ~atk.monitored
    /\ atk' = [atk EXCEPT !.monitored = TRUE,
                          !.spec_robustness = safety_spec_robustness(atk.trace)]
    /\ UNCHANGED <<plc, tank, tenv, fz, env, sim, twin, mon, codec>>

----------------------------------------------------------------------------
(* PLCSim: simulate_physics applied to any pump state and any dt *)

PhysicsRead ==
    /\ \E res \in ReadOutcomes : plc' = read_plc_outputs(plc, res)
    /\ UNCHANGED <<tank, tenv, fz, env, atk, sim, twin, mon, codec>>

PhysicsStep ==
    /\ \E dt \in DtSet : plc' = simulate_physics(plc, dt)
    /\ UNCHANGED <<tank, tenv, fz, env, atk, sim, twin, mon, codec>>

----------------------------------------------------------------------------
(* PLCSim.run: the control loop *)

\* line 85: dt = 0.1, in tenths of a second as simulate_physics takes it
RunDt == 1
\* The loop's clock runs in hundredths of a second
Period == 10 * RunDt

\* How many iterations are followed, the longest time (hundredths of a
\* second) the work of one iteration takes, and the duration handed to run
\* when one is given (hundredths of a second)
MaxCycles == 3
MaxCycleTime == 25
MaxDuration == 20
CycleTimes == {0, Period \div 2, Period, MaxCycleTime}
\* run(duration=None) is -1, run(duration=0) is 0
Durations == {-1, 0, MaxDuration}

\* PLCSim.__init__ (lines 25-27) and the locals of run.  registers are the
\* PLC's input registers as this program last wrote them (-1: not yet);
\* steps are the calls the current iteration has made; physics is the state
\* the iteration's simulate_physics call left and the pump state it used.
SimInits ==
    [pc : {"read"}, cycle : {0}, steps : {<<>>}, updates : {0}, dt_used : {0},
     registers : {[flow_sensor |-> -1, range_sensor |-> -1]},
     written : {"none"}, physics : {<<>>}, sample : {<<>>}, samples : {0},
     now : {0}, start_time : {0}, cycle_start : {0}, elapsed : {0}, slept : {0},
     duration : Durations, stop : {"none"}, closed : {<<>>}]

\* The loop body with the sample emitted before the physics update
next_step_sample_first(pc) ==
    CASE pc = "read" -> "trace"
      [] pc = "trace" -> "physics"
      [] pc = "physics" -> "write"
      [] pc = "write" -> "check"

\* lines 92-101: the order of the calls of one iteration
next_step(pc) ==
    CASE pc = "read" -> "physics"
      [] pc = "physics" -> "write"
      [] pc = "write" -> "trace"
      [] pc = "trace" -> "check"

\* dt grown by the time the previous iteration overran
cycle_dt_catch_up(s) ==
    RunDt + (IF s.elapsed > Period THEN (s.elapsed - Period) \div 10 + 1 ELSE 0)

\* line 95: the dt handed to simulate_physics
cycle_dt(s) == RunDt

\* line 47: int(self.range_sensor * 100).  range_sensor is a float that has
\* gone through repeated - 0.2 and + 0.01: it lies a rounding error off the
\* grid value h / 100, so the product truncates to h or, when the float is
\* below the grid value, to h - 1
RangeEncodings(h) == IF h >= 1 THEN {h - 1, h} ELSE {h}

\* line 89 and line 92
SimRead ==
    /\ sim.pc = "read"
    /\ \E res \in ReadOutcomes : plc' = read_plc_outputs(plc, res)
    /\ sim' = [sim EXCEPT !.pc = next_step("read"), !.cycle_start = sim.now,
                          !.steps = Append(@, "read")]
    /\ UNCHANGED <<tank, tenv, fz, env, atk, twin, mon, codec>>

\* line 95
SimPhysics ==
    /\ sim.pc = "physics"
    /\ plc' = simulate_physics(plc, cycle_dt(sim))
    /\ sim' = [sim EXCEPT !.pc = next_step("physics"),
                          !.steps = Append(@, "physics"),
                          !.updates = @ + 1, !.dt_used = cycle_dt(sim),
                          !.physics = [pump_state |-> plc.pump_state,
                                       range_sensor |-> plc'.range_sensor]]
    /\ UNCHANGED <<tank, tenv, fz, env, atk, twin, mon, codec>>

\* update_modbus_values (lines 37-51): the two writes in turn; an exception
\* ends the call and is printed, an error response is not looked at
update_modbus_values(s, p, w1, w2, reg) ==
    LET first == IF w1 = "ok"
                   THEN [s EXCEPT !.registers.flow_sensor = p.flow_sensor]
                   ELSE s
    IN IF w1 = "exception" THEN [first EXCEPT !.written = "none"]
       ELSE IF w2 = "ok"
         THEN [first EXCEPT !.registers.range_sensor = reg, !.written = "range"]
         ELSE [first EXCEPT !.written = "none"]

SimWrite ==
    /\ sim.pc = "write"
    /\ \E w1 \in WriteOutcomes, w2 \in WriteOutcomes,
          reg \in RangeEncodings(plc.range_sensor) :
         /\ w1 = "exception" => w2 = "ok" /\ reg = plc.range_sensor
         /\ w2 # "ok" => reg = plc.range_sensor
         /\ sim' = [update_modbus_values(sim, plc, w1, w2, reg) EXCEPT
                      !.pc = next_step("write"), !.steps = Append(@, "write")]
    /\ UNCHANGED <<plc, tank, tenv, fz, env, atk, twin, mon, codec>>

\* write_trace (lines 29-35)
write_trace(s, p) ==
    [s EXCEPT !.sample = [FlowSensor |-> p.flow_sensor,
                          RangeSensor |-> p.range_sensor,
                          Pump |-> p.pump_state],
              !.samples = @ + 1]

SimTrace ==
    /\ sim.pc = "trace"
    /\ sim' = [write_trace(sim, plc) EXCEPT
                 !.pc = next_step("trace"), !.steps = Append(@, "sample")]
    /\ UNCHANGED <<plc, tank, tenv, fz, env, atk, twin, mon, codec>>

\* lines 108-114: the iteration's work took `work`; the loop ends when
\* duration is true (neither None nor 0) and has passed, else it sleeps for
\* what is left of dt
SimCheck ==
    /\ sim.pc = "check" /\ sim.cycle < MaxCycles
    /\ \E work \in CycleTimes :
         LET t == sim.now + work
             elapsed == t - sim.cycle_start
             wait == IF elapsed < Period THEN Period - elapsed ELSE 0
         IN sim' = IF sim.duration > 0 /\ t - sim.start_time >= sim.duration
                     THEN [sim EXCEPT !.pc = "finally", !.stop = "duration",
                                      !.now = t]
                     ELSE [sim EXCEPT !.pc = "read", !.steps = <<>>,
                                      !.cycle = @ + 1, !.elapsed = elapsed,
                                      !.slept = wait, !.now = t + wait]
    /\ UNCHANGED <<plc, tank, tenv, fz, env, atk, twin, mon, codec>>

\* lines 116-117: Ctrl-C anywhere in the loop
SimInterrupt ==
    /\ sim.pc \in {"read", "physics", "write", "trace", "check"}
    /\ sim' = [sim EXCEPT !.pc = "finally", !.stop = "interrupt"]
    /\ UNCHANGED <<plc, tank, tenv, fz, env, atk, twin, mon, codec>>

\* lines 118-120
SimFinally ==
    /\ sim.pc = "finally"
    /\ sim' = [sim EXCEPT !.pc = "done", !.closed = <<"trace_file", "client">>]
    /\ UNCHANGED <<plc, tank, tenv, fz, env, atk, twin, mon, codec>>

----------------------------------------------------------------------------

(* Two runs of the plant updates on the same inputs *)

\* How many updates each of the two runs makes
MaxTwinSteps == 2
TwinDts == {0, RunDt, MaxDt}

\* What one update is fed: PLCSim the outcome of the coil read and dt,
\* tanksim the outcomes of the Modbus calls of the iteration
TwinInputs(kind) ==
    IF kind = "plc" THEN [res : ReadOutcomes, dt : TwinDts] ELSE TankInputs

\* One update: read_plc_outputs then simulate_physics (lines 92-95 of
\* plcexpsimulator.py), or one iteration of the tanksim loop
plant_update(kind, s, in) ==
    IF kind = "plc" THEN simulate_physics(read_plc_outputs(s, in.res), in.dt)
    ELSE tank_tick(s, in)

\* Both runs start from the same state; a is fed first and its inputs are
\* kept in fed, b is fed the same inputs later (clock counts the updates
\* made, a stand-in for the time of day at which an update runs)
TwinInits ==
    { [kind |-> k, a |-> s, hist |-> <<>>, fed |-> <<>>, b |-> s, nb |-> 0,
       clock |-> 0] :
        k \in {"plc"}, s \in {PLCInit} }
    \cup
    { [kind |-> k, a |-> s, hist |-> <<>>, fed |-> <<>>, b |-> s, nb |-> 0,
       clock |-> 0] :
        k \in {"tank"}, s \in {Filled(n) : n \in FillTicks} }

TwinStepA ==
    /\ Len(twin.fed) < MaxTwinSteps
    /\ twin.kind = "tank" => twin.a.running
    /\ \E in \in TwinInputs(twin.kind) :
         LET next == plant_update(twin.kind, twin.a, in)
         IN twin' = [twin EXCEPT !.a = next, !.hist = Append(@, next),
                                 !.fed = Append(@, in), !.clock = @ + 1]
    /\ UNCHANGED <<plc, tank, tenv, fz, env, atk, sim, mon, codec>>

TwinStepB ==
    /\ twin.nb < Len(twin.fed)
    /\ twin' = [twin EXCEPT
                  !.b = plant_update(twin.kind, twin.b, twin.fed[twin.nb + 1]),
                  !.nb = @ + 1, !.clock = @ + 1]
    /\ UNCHANGED <<plc, tank, tenv, fz, env, atk, sim, mon, codec>>

----------------------------------------------------------------------------

(* Register round trip: int(v * 100) into the register, register / 100 back *)

\* Sensor values are taken in thousandths: the fuzzer's range 0..MaxSensor
\* on the 0.1 grid, and every value of the 0.001 grid up to MaxFine
\* thousandths
MaxSensor == 100
MaxFine == 2000
\* The values v (thousandths, up to 2100) for which the double product
\* (v/1000)*100 lies just below an integer that the exact product reaches
TruncatesLowFine ==
    {290, 570, 580, 1130, 1140, 1150, 1160, 2010, 2030, 2050, 2070}

\* An encoding that keeps one decimal only: int(value * 10) * 10
encode_one_decimal(v) == 10 * (v \div 100)

\* overflow_fuzzer.py line 44: int(value * 100), value v in thousandths
encode(v) ==
    IF v % 100 = 0 THEN register_value(v \div 10)
    ELSE (v \div 10) - (IF v \in TruncatesLowFine THEN 1 ELSE 0)

\* register / 100, in thousandths
decode(reg) == 10 * reg

CodecInits ==
    [kind : {"fuzzer"},
     v : {100 * k : k \in 0..(10 * MaxSensor)} \cup (0..MaxFine),
     register : {-1}, decoded : {-1}]
    \cup
    [kind : {"plcsim"}, v : {10 * h : h \in 0..(TANK_CAPACITY * Scale)},
     register : {-1}, decoded : {-1}]

\* write_range_sensor, line 44
EncodeValue ==
    /\ codec.kind = "fuzzer" /\ codec.register = -1
    /\ codec' = [codec EXCEPT !.register = encode(codec.v)]
    /\ UNCHANGED <<plc, tank, tenv, fz, env, atk, sim, twin, mon>>

\* update_modbus_values, line 47
EncodeRange ==
    /\ codec.kind = "plcsim" /\ codec.register = -1
    /\ \E reg \in RangeEncodings(codec.v \div 10) :
         codec' = [codec EXCEPT !.register = reg]
    /\ UNCHANGED <<plc, tank, tenv, fz, env, atk, sim, twin, mon>>

\* The reader of the register scales it back
DecodeRegister ==
    /\ codec.register # -1 /\ codec.decoded = -1
    /\ codec' = [codec EXCEPT !.decoded = decode(codec.register)]
    /\ UNCHANGED <<plc, tank, tenv, fz, env, atk, sim, twin, mon>>

----------------------------------------------------------------------------
(* The temporal monitors: samplemonitor.monitor and, in psy-taliro.py,
   format_trace_for_rtamt and WaterSystemAttacks.create_safety_spec *)

\* How many lines of trace_output.txt are followed
MaxRows == 8

\* One line of the file tanksim writes, as the twelve numbers of its columns;
\* only Timestamp (column 0), Pump_State (4) and Range_Sensor (7) are looked at
Row(ts, pump, range) == <<ts, 0, 0, 0, pump, 0, 0, range, 0, 0, 0, 0>>

\* Pump state and range of a line: pump on above desiredDistanceFill, pump
\* off below it
RowValues == {<<1, 10>>, <<0, 5>>}

\* The files: with the header line the simulators write first or without it,
\* and with the timestamps ascending as the loops write them
TraceFiles ==
    UNION { { [i \in 1..n |-> Row(i, f[i][1], f[i][2])] : f \in [1..n -> RowValues] } :
            n \in 0..MaxRows }

\* The traces handed to format_trace_for_rtamt: sample i of each variable
\* carries the time i - 1 (the grid of np.linspace, in steps)
TimeOf(i) == i - 1
TraceData == Traces \cup {<<>>}

ParseOutcomes == {"ok", "RTAMTException"}

\* A value of a series is held as the list of the numbers it is made of: one
\* for a float, twelve for a whole line
MonInits ==
    [prog : {"monitor"}, pc : {"start"}, header : BOOLEAN, rows : TraceFiles,
     trace_data : {<<>>}, traces : {<<>>}, timestamps : {<<>>},
     range_values : {<<>>}, pump_values : {<<>>},
     rtamt_data : {<<>>}, calls : {<<>>}, parse : {"none"}, rob : {FALSE},
     error : {"none"}]
    \cup
    [prog : {"format"}, pc : {"start"}, header : {FALSE}, rows : {<<>>},
     trace_data : TraceData, traces : {<<>>}, timestamps : {<<>>},
     range_values : {<<>>}, pump_values : {<<>>},
     rtamt_data : {<<>>}, calls : {<<>>}, parse : {"none"}, rob : {FALSE},
     error : {"none"}]
    \cup
    [prog : {"create"}, pc : {"start"}, header : {FALSE}, rows : {<<>>},
     trace_data : {<<>>}, traces : {<<>>}, timestamps : {<<>>},
     range_values : {<<>>}, pump_values : {<<>>},
     rtamt_data : {<<>>}, calls : {<<>>}, parse : {"none"}, rob : {FALSE},
     error : {"none"}]

\* An exception nothing catches ends the program
mon_raised(m, e) == [m EXCEPT !.pc = "raised", !.error = e]

\* samplemonitor.py lines 15-16: float() of every field of every line; the
\* header's fields are no numbers
read_traces(m) ==
    IF m.header THEN mon_raised(m, "ValueError")
    ELSE [m EXCEPT !.traces = m.rows, !.pc = "read"]

\* lines 20 and 21: [timestamps[i], traces[column]], the element of traces
\* at the index column, which is a whole line
projection(timestamps, traces, column) ==
    [i \in 1..Len(timestamps) |-> <<timestamps[i], traces[column + 1]>>]

\* lines 19-21; traces[7] of fewer than eight lines is an IndexError
project(m) ==
    LET timestamps == [i \in 1..Len(m.traces) |-> m.traces[i][1]]
    IN IF Len(m.traces) > 0 /\ Len(m.traces) < 8
         THEN mon_raised([m EXCEPT !.timestamps = timestamps], "IndexError")
         ELSE [m EXCEPT !.timestamps = timestamps,
                        !.range_values = projection(timestamps, m.traces, 7),
                        !.pump_values = projection(timestamps, m.traces, 4),
                        !.pc = "projected"]

\* A handler that prints the exception and goes on
on_parse_failure_print_only(m) ==
    [m EXCEPT !.pc = "parsed", !.error = "RTAMTException"]

\* lines 35-37: print, then sys.exit()
on_parse_failure(m) ==
    [m EXCEPT !.pc = "exited", !.error = "RTAMTException"]

\* lines 33-37
parse(m, outcome) ==
    LET called == [m EXCEPT !.calls = Append(@, "parse")]
    IN IF outcome = "ok"
         THEN [called EXCEPT !.parse = "ok", !.pc = "parsed"]
         ELSE on_parse_failure([called EXCEPT !.parse = "failed"])

\* lines 40-42: the robustness is computed and printed
evaluate(m) ==
    [m EXCEPT !.calls = Append(@, "evaluate"), !.rob = TRUE, !.pc = "done"]

\* psy-taliro.py lines 5-29.  trace_data['x2'][:][0] is the first sample of
\* x2, the pair (time, value), so 'time' holds its two numbers
format_trace_for_rtamt(trace_data) ==
    [time |-> <<TimeOf(1), trace_data[1].x2>>,
     x2 |-> [i \in 1..Len(trace_data) |-> trace_data[i].x2],
     P1 |-> [i \in 1..Len(trace_data) |-> trace_data[i].P1],
     V1 |-> [i \in 1..Len(trace_data) |-> trace_data[i].V1]]

\* psy-taliro.py lines 38-54: parse() is the last statement before return;
\* what it raises leaves the method
create_safety_spec(m, outcome) ==
    LET called == [m EXCEPT !.calls = Append(@, "parse")]
    IN IF outcome = "ok"
         THEN [called EXCEPT !.parse = "ok", !.pc = "returned"]
         ELSE mon_raised([called EXCEPT !.parse = "failed"], "RTAMTException")

MonRead ==
    /\ mon.prog = "monitor" /\ mon.pc = "start"
    /\ mon' = read_traces(mon)
    /\ UNCHANGED <<plc, tank, tenv, fz, env, atk, sim, twin, codec>>

MonProject ==
    /\ mon.prog = "monitor" /\ mon.pc = "read"
    /\ mon' = project(mon)
    /\ UNCHANGED <<plc, tank, tenv, fz, env, atk, sim, twin, codec>>

MonParse ==
    /\ mon.prog = "monitor" /\ mon.pc = "projected"
    /\ \E outcome \in ParseOutcomes : mon' = parse(mon, outcome)
    /\ UNCHANGED <<plc, tank, tenv, fz, env, atk, sim, twin, codec>>

MonEvaluate ==
    /\ mon.prog = "monitor" /\ mon.pc = "parsed"
    /\ mon' = evaluate(mon)
    /\ UNCHANGED <<plc, tank, tenv, fz, env, atk, sim, twin, codec>>

\* An empty trace has no first sample: IndexError at line 23
FormatTrace ==
    /\ mon.prog = "format" /\ mon.pc = "start"
    /\ mon' = IF Len(mon.trace_data) = 0
                THEN mon_raised(mon, "IndexError")
                ELSE [mon EXCEPT !.rtamt_data = format_trace_for_rtamt(mon.trace_data),
                                 !.pc = "returned"]
    /\ UNCHANGED <<plc, tank, tenv, fz, env, atk, sim, twin, codec>>

CreateSafetySpec ==
    /\ mon.prog = "create" /\ mon.pc = "start"
    /\ \E outcome \in ParseOutcomes : mon' = create_safety_spec(mon, outcome)
    /\ UNCHANGED <<plc, tank, tenv, fz, env, atk, sim, twin, codec>>

----------------------------------------------------------------------------
(* Specifications *)

FzIdle == <<>>
EnvIdle == <<>>
AtkIdle == <<>>
SimIdle == <<>>
TwinIdle == <<>>
MonIdle == <<>>
CodecIdle == <<>>

InitPhysics ==
    /\ plc = PLCInit /\ tank = TankInit /\ tenv = TenvInit
    /\ fz = FzIdle /\ env = EnvIdle /\ atk = AtkIdle
    /\ sim = SimIdle /\ twin = TwinIdle /\ mon = MonIdle /\ codec = CodecIdle
NextPhysics == PhysicsRead \/ PhysicsStep
SpecPhysics == InitPhysics /\ [][NextPhysics]_vars

InitTank ==
    /\ plc = PLCInit /\ tenv = TenvInit
    /\ FilledIsReached
    /\ \E n \in FillTicks : tank = Filled(n)
    /\ fz = FzIdle /\ env = EnvIdle /\ atk = AtkIdle
    /\ sim = SimIdle /\ twin = TwinIdle /\ mon = MonIdle /\ codec = CodecIdle
NextTank == TankTick \/ TankInterrupt
SpecTank == InitTank /\ [][NextTank]_vars

\* The tanksim loop from a tank the red doser has nearly or just filled
InitDosedTank ==
    /\ plc = PLCInit /\ tenv = TenvInit
    /\ DosedIsReached
    /\ \E n \in {MaxDose - 1, MaxDose} : tank = Dosed(n)
    /\ fz = FzIdle /\ env = EnvIdle /\ atk = AtkIdle
    /\ sim = SimIdle /\ twin = TwinIdle /\ mon = MonIdle /\ codec = CodecIdle
SpecDosedTank == InitDosedTank /\ [][NextTank]_vars

InitFuzz ==
    /\ plc = PLCInit /\ tank = TankInit /\ tenv = TenvInit
    /\ fz = FzInit /\ env \in EnvInits /\ atk = AtkIdle
    /\ sim = SimIdle /\ twin = TwinIdle /\ mon = MonIdle /\ codec = CodecIdle
NextFuzz ==
    \/ RunCampaign \/ TestSequenceBegin \/ EnvStall \/ StartSequence
    \/ ProcessValue \/ EndSequence \/ IterationSummary \/ FinalSummary
    \/ ExceptHandler \/ Finally
SpecFuzz == InitFuzz /\ [][NextFuzz]_vars

InitCheck ==
    /\ plc = PLCInit /\ tank = TankInit /\ tenv = TenvInit
    /\ fz = FzInit /\ env \in EnvInits /\ atk = AtkIdle
    /\ sim = SimIdle /\ twin = TwinIdle /\ mon = MonIdle /\ codec = CodecIdle
NextCheck == CheckSample
SpecCheck == InitCheck /\ [][NextCheck]_vars

InitAttack ==
    /\ plc = PLCInit /\ tank = TankInit /\ tenv = TenvInit
    /\ fz = FzIdle /\ env = EnvIdle /\ atk \in AtkInits
    /\ sim = SimIdle /\ twin = TwinIdle /\ mon = MonIdle /\ codec = CodecIdle
NextAttack == EvaluateAttack \/ MonitorSafetySpec
SpecAttack == InitAttack /\ [][NextAttack]_vars

InitMonitor ==
    /\ plc = PLCInit /\ tank = TankInit /\ tenv = TenvInit
    /\ fz = FzIdle /\ env = EnvIdle /\ atk = AtkIdle
    /\ sim = SimIdle /\ twin = TwinIdle /\ mon \in MonInits /\ codec = CodecIdle
NextMonitor ==
    \/ MonRead \/ MonProject \/ MonParse \/ MonEvaluate
    \/ FormatTrace \/ CreateSafetySpec
SpecMonitor == InitMonitor /\ [][NextMonitor]_vars

InitSim ==
    /\ plc = PLCInit /\ tank = TankInit /\ tenv = TenvInit
    /\ fz = FzIdle /\ env = EnvIdle /\ atk = AtkIdle
    /\ sim \in SimInits /\ twin = TwinIdle /\ mon = MonIdle /\ codec = CodecIdle
NextSim ==
    \/ SimRead \/ SimPhysics \/ SimWrite \/ SimTrace \/ SimCheck
    \/ SimInterrupt \/ SimFinally
SpecSim == InitSim /\ [][NextSim]_vars

InitTwin ==
    /\ plc = PLCInit /\ tank = TankInit /\ tenv = TenvInit
    /\ fz = FzIdle /\ env = EnvIdle /\ atk = AtkIdle
    /\ sim = SimIdle /\ twin \in TwinInits /\ mon = MonIdle /\ codec = CodecIdle
NextTwin == TwinStepA \/ TwinStepB
SpecTwin == InitTwin /\ [][NextTwin]_vars

InitCodec ==
    /\ plc = PLCInit /\ tank = TankInit /\ tenv = TenvInit
    /\ fz = FzIdle /\ env = EnvIdle /\ atk = AtkIdle
    /\ sim = SimIdle /\ twin = TwinIdle /\ mon = MonIdle /\ codec \in CodecInits
NextCodec == EncodeValue \/ EncodeRange \/ DecodeRegister
SpecCodec == InitCodec /\ [][NextCodec]_vars

----------------------------------------------------------------------------
(* Claims *)

\* C1: after every simulate_physics step, for any pump state and any dt >= 0,
\* 0 <= range_sensor <= TANK_CAPACITY: the value saturates at the bounds
C1_RangeWithinBounds ==
    /\ plc.range_sensor >= 0
    /\ plc.range_sensor <= TANK_CAPACITY * Scale

\* the tank has been pumped down to the lower bound and holds there
C1_Witness ==
    plc.range_sensor = 0 /\ plc.pump_state /\ plc.flow_sensor = 100

\* C2: at the end of every tanksim loop iteration, whatever the coil and
\* register reads of the iteration returned (values or error responses),
\* 0 <= water_volume_ml <= TANK_VOLUME_ML
C2_VolumeWithinCapacity ==
    tank.last \in {"sample", "skipped"} =>
        /\ RLe(R(0), tank.water_volume_ml)
        /\ RLe(tank.water_volume_ml, R(TANK_VOLUME_ML))

\* C3: check_safety_violation returns no violation for a sample with
\* range_sensor = DESIRED_DISTANCE or below it, whatever the pump state, and
\* for a sample above DESIRED_DISTANCE it returns one exactly when the pump
\* is on
C3_StrictBoundary ==
    \A k \in DOMAIN fz.checked :
        LET c == fz.checked[k]
        IN /\ c.range_sensor = DESIRED_DISTANCE * Scale => c.returned = "None"
           /\ c.range_sensor < DESIRED_DISTANCE * Scale => c.returned = "None"
           /\ c.range_sensor > DESIRED_DISTANCE * Scale =>
                (c.returned = "violation" <=> c.pump_state)

\* a sample at exactly DESIRED_DISTANCE was checked with the pump on
C3_Witness ==
    \E k \in DOMAIN fz.checked :
        /\ fz.checked[k].range_sensor = DESIRED_DISTANCE * Scale
        /\ fz.checked[k].pump_state
        /\ fz.checked[k].returned = "None"

\* C4: when test_sequence has taken the sequence 9, 10, 11, 12, 13 to its
\* end and the pump coil read on at each of the five steps, the violations
\* returned and logged are exactly three, for 11, 12 and 13 in this order
C4_BoundarySequence ==
    (/\ fz.pc = "values" /\ fz.seq_num = 0 /\ fz.idx > Len(test_sequences[1])
     /\ Len(fz.checked) = Len(test_sequences[1])
     /\ \A k \in DOMAIN fz.checked : fz.checked[k].pump_state)
    => /\ Len(fz.violations) = 3
       /\ Len(fz.violation_file) = 3
       /\ \A k \in 1..3 :
            /\ fz.violations[k].range_sensor = (10 + k) * Scale
            /\ fz.violation_file[k][2] = (10 + k) * Scale
       /\ \A k \in DOMAIN fz.checked :
            fz.checked[k].range_sensor <= 10 * Scale
              => fz.checked[k].returned = "None"

\* the first sequence has run to its end with the pump coil on at each step
C4_Witness ==
    /\ fz.pc = "values" /\ fz.seq_num = 0 /\ fz.idx = 6
    /\ Len(fz.checked) = 5
    /\ \A k \in DOMAIN fz.checked : fz.checked[k].pump_state
    /\ Len(fz.violations) = 3

\* C5: at every point of a test_sequence run the lines appended to the
\* violation log, the SafetyViolation records collected and the samples
\* processed with range_sensor > DESIRED_DISTANCE and the pump on are equal
\* in number and agree one by one, in sample order
C5_NoDeduplication ==
    LET Hit(c) == c.range_sensor > DESIRED_DISTANCE * Scale /\ c.pump_state
        hits == SelectSeq(fz.checked, Hit)
    IN /\ Len(fz.violations) = Len(hits)
       /\ Len(fz.violation_file) = Len(hits)
       /\ \A k \in DOMAIN hits :
            /\ fz.violations[k].range_sensor = hits[k].range_sensor
            /\ fz.violation_file[k][2] = hits[k].range_sensor

\* four samples in a row violated (15, 20, 25, 30) and each left a record
C5_Witness ==
    /\ Len(fz.checked) >= 9
    /\ \A k \in 6..9 : fz.checked[k].returned = "violation"
    /\ Len(fz.violation_file) = 7

\* C6 as stated: a trace with P1 = 1 and V1 = 0 at every sample and every x2
\* in [LL, HH] is reported as a violation both by the formula of
\* create_safety_spec (positive robustness of not always safe) and by
\* evaluate_attack (non-positive robustness)
C6_AlwaysClassifiedViolation ==
    (/\ atk.evaluated /\ atk.monitored
     /\ \A k \in DOMAIN atk.trace :
          /\ atk.trace[k].P1 = Scale /\ atk.trace[k].V1 = 0
          /\ atk.trace[k].x2 >= LL * Scale /\ atk.trace[k].x2 <= HH * Scale)
    => /\ atk.spec_robustness > 0
       /\ RLe(atk.metrics.robustness, R(0))

\* C6: for a trace with P1 = 1 and V1 = 0 at every sample and every x2 in
\* [LL, HH], the formula of create_safety_spec reports a violation exactly
\* when some sample has x2 < H; the robustness evaluate_attack returns is
\* never positive, and negative exactly when some sample has x2 # 0
C6_ViolationBelowThreshold ==
    (/\ atk.evaluated /\ atk.monitored
     /\ \A k \in DOMAIN atk.trace :
          /\ atk.trace[k].P1 = Scale /\ atk.trace[k].V1 = 0
          /\ atk.trace[k].x2 >= LL * Scale /\ atk.trace[k].x2 <= HH * Scale)
    => /\ atk.spec_robustness > 0
            <=> \E k \in DOMAIN atk.trace : atk.trace[k].x2 < H * Scale
       /\ RLe(atk.metrics.robustness, R(0))
       /\ RLt(atk.metrics.robustness, R(0))
            <=> \E k \in DOMAIN atk.trace : atk.trace[k].x2 # 0

\* the level is below H with the pump on and the valve off, and the formula
\* reports the violation
C6_Witness ==
    /\ atk.evaluated /\ atk.monitored
    /\ \A k \in DOMAIN atk.trace :
         /\ atk.trace[k].P1 = Scale /\ atk.trace[k].V1 = 0
         /\ atk.trace[k].x2 = 5 * Scale
    /\ atk.spec_robustness > 0

\* C7: on every tanksim tick that reaches the dosing and overflow handling
\* with a volume that, after the pump's and the dosers' additions, exceeds
\* TANK_VOLUME_ML, the overflow is taken from the uncapped volume, each mass
\* is reduced by 0.5 * overflow * its concentration, and the tick ends with
\* water_volume_ml = TANK_VOLUME_ML
C7_OverflowCorrection ==
    [][(tank'.step = tank.step + 1 /\ tank'.io.exc \in {"none", "write"}
          /\ ReadsOk(tank'.io)) =>
         LET in == tank'.io
             red_dose == IF RedDose(in) THEN R(DOSE_VOLUME_ML) ELSE R(0)
             blue_dose == IF BlueDose(in) THEN R(DOSE_VOLUME_ML) ELSE R(0)
             pumped == IF in.pump = "on" THEN FillPerTick ELSE R(0)
             uncapped == RAdd(RAdd(tank.water_volume_ml, pumped),
                              RAdd(red_dose, blue_dose))
             overflow == RSub(uncapped, R(TANK_VOLUME_ML))
         IN RLt(R(TANK_VOLUME_ML), uncapped) =>
              /\ tank'.water_volume_ml = R(TANK_VOLUME_ML)
              /\ tank'.red_ml =
                   RSub(RAdd(tank.red_ml, red_dose),
                        RMul(Half, RMul(overflow, tank.red_concentration)))
              /\ tank'.blue_ml =
                   RSub(RAdd(tank.blue_ml, blue_dose),
                        RMul(Half, RMul(overflow, tank.blue_concentration)))]_vars

\* a tick overflowed a tank that held red dye: the volume is back at
\* TANK_VOLUME_ML and part of the dye went with the overflow
C7_Witness ==
    /\ tenv.overflow >= 1 /\ tank.last = "sample"
    /\ tank.water_volume_ml = R(TANK_VOLUME_ML)
    /\ RLt(R(0), tank.red_ml) /\ tank.red_ml[2] # 1

\* C8: when run_campaign has ended and at most one call failed on the way
\* (raised or returned an error response), all its iterations were executed
\* and each wrote its iteration summary
C8_SingleFailureNeverAborts ==
    (fz.pc = "done" /\ env.faults <= 1) =>
        LET IsSummary(line) == line[1] = "Iteration Results"
        IN /\ fz.i = fz.iterations
           /\ Len(SelectSeq(fz.summary_file, IsSummary)) = fz.iterations

\* C9: run_campaign(iterations = N) has, when it ends, written N iteration
\* summaries, and every test_sequence call that returns has started and
\* ended each of the four library sequences in the trace, in library order
C9_AllRunsRecorded ==
    LET IsSummary(line) == line[1] = "Iteration Results"
        IsMarker(line) == line.event \in {"START_SEQUENCE", "END_SEQUENCE"}
        markers == SelectSeq(fz.trace_file, IsMarker)
    IN /\ fz.pc = "done" =>
            Len(SelectSeq(fz.summary_file, IsSummary)) = fz.iterations
       /\ (fz.pc = "seq_start" /\ fz.seq_num = Len(test_sequences)) =>
            /\ Len(markers) = 2 * Len(test_sequences)
            /\ \A k \in DOMAIN test_sequences :
                 /\ markers[2 * k - 1].event = "START_SEQUENCE"
                 /\ markers[2 * k - 1].extra = <<"Sequence", k>>
                 /\ markers[2 * k].event = "END_SEQUENCE"
                 /\ markers[2 * k].extra[2] = k

\* C10: the END_SEQUENCE line of a sequence whose loop was left by the
\* duration check before all its values were written differs from the line
\* of a sequence that ran to the end ("Sequence k complete")
C10_TruncationIsMarked ==
    \A k \in DOMAIN fz.trace_file :
        LET line == fz.trace_file[k]
        IN (line.event = "END_SEQUENCE" /\ line.extra[2] \in fz.cut)
             => line.extra # <<"Sequence complete", line.extra[2]>>

\* C11: when the tanksim loop has stopped, by Ctrl-C or by an exception that
\* left the loop body, the trace file is closed and the Modbus client
\* connection is closed
C11_ResourcesReleased ==
    ~tank.running => ~tank.trace_file_open /\ ~tank.client_open

\* C12: every iteration of PLCSim.run makes its calls once each in the
\* order read_plc_outputs, simulate_physics, update_modbus_values,
\* write_trace; the sample it emits holds the pump state its physics update
\* used and the range that update produced, which is the range its register
\* write encoded
C12_TickOrder ==
    LET order == <<"read", "physics", "write", "sample">>
    IN /\ Len(sim.steps) <= Len(order)
       /\ sim.steps = SubSeq(order, 1, Len(sim.steps))
       /\ sim.pc = "check" => sim.steps = order
       /\ (Len(sim.steps) = Len(order) /\ sim.steps[Len(order)] = "sample") =>
            /\ sim.sample.Pump = sim.physics.pump_state
            /\ sim.sample.RangeSensor = sim.physics.range_sensor
            /\ sim.sample.FlowSensor = (IF sim.physics.pump_state THEN 100 ELSE 0)
            /\ sim.written = "range" =>
                 sim.registers.range_sensor \in RangeEncodings(sim.sample.RangeSensor)

\* a later iteration with the pump on has emitted its sample after writing
\* the range register
C12_Witness ==
    /\ sim.pc = "check" /\ sim.cycle >= 1
    /\ sim.sample.Pump /\ sim.written = "range"
    /\ sim.sample.RangeSensor < TANK_CAPACITY * Scale
    /\ sim.registers.range_sensor = sim.sample.RangeSensor - 1

\* C19: every iteration of PLCSim.run makes exactly one physics update, with
\* dt = 0.1, however long the iteration before it took; the loop sleeps for
\* what is left of dt and not at all after an iteration that took dt or
\* longer
C19_NoCatchUp ==
    /\ sim.updates = sim.cycle
                       + (IF \E k \in DOMAIN sim.steps : sim.steps[k] = "physics"
                            THEN 1 ELSE 0)
    /\ sim.updates > 0 => sim.dt_used = RunDt
    /\ sim.cycle > 0 =>
         /\ sim.elapsed >= Period => sim.slept = 0
         /\ sim.elapsed < Period => sim.slept = Period - sim.elapsed

\* an iteration overran dt and the next one has made its one update
C19_Witness ==
    /\ sim.cycle >= 1 /\ sim.elapsed > Period /\ sim.slept = 0
    /\ sim.pc = "write" /\ sim.updates = sim.cycle + 1
    /\ sim.dt_used = RunDt

C14_RoundTrip ==
    codec.decoded # -1 =>
        /\ codec.v - codec.decoded >= 0
        /\ codec.v - codec.decoded <= 10

\* 10.2 went into the register as 1019 and came back as 10.19
C14_Witness ==
    /\ codec.kind = "fuzzer" /\ codec.v = 10200
    /\ codec.register = 1019 /\ codec.decoded = 10190

C16_PumpErrorRecoverable ==
    (tank.step > 0 /\ tank.io.pump = "error" /\ tank.io.exc = "none")
        => tank.last # "raised"

\* C20: in every sample the tanksim loop emits, Range_Sensor equals
\* 100 * (1 - Water_Volume_ml / TANK_VOLUME_ML) of that same sample and lies
\* in [0, 100].  Checked on the samples of the ticks that were followed.
C20_RangeFromSampleVolume ==
    (tenv.ticks > 0 /\ tank.last = "sample") =>
        LET s == SampleOf(tank, tank.io)
        IN /\ s.Range_Sensor = RangeOf(s.Water_Volume_ml)
           /\ RLe(R(0), s.Range_Sensor)
           /\ RLe(s.Range_Sensor, R(100))

\* C17: for a trace of n samples, the series assembled for each declared
\* variable has exactly n entries, entry i pairing the timestamp of sample i
\* with that variable's value in sample i, in ascending time order
\* (range_sensor and pump_state in samplemonitor.monitor; time, x2, P1, V1 in
\* format_trace_for_rtamt).
C17_Projections ==
    /\ (mon.prog = "monitor" /\ mon.pc \in {"projected", "parsed", "exited", "done"}) =>
          /\ mon.range_values =
               [i \in 1..Len(mon.rows) |-> <<mon.rows[i][1], <<mon.rows[i][8]>>>>]
          /\ mon.pump_values =
               [i \in 1..Len(mon.rows) |-> <<mon.rows[i][1], <<mon.rows[i][5]>>>>]
    /\ (mon.prog = "format" /\ mon.pc = "returned") =>
          /\ mon.rtamt_data.time = [i \in 1..Len(mon.trace_data) |-> TimeOf(i)]
          /\ mon.rtamt_data.x2 = [i \in 1..Len(mon.trace_data) |-> mon.trace_data[i].x2]
          /\ mon.rtamt_data.P1 = [i \in 1..Len(mon.trace_data) |-> mon.trace_data[i].P1]
          /\ mon.rtamt_data.V1 = [i \in 1..Len(mon.trace_data) |-> mon.trace_data[i].V1]

\* C18: a syntax error in the temporal formula is fatal before any
\* evaluation.  In samplemonitor.monitor and create_safety_spec, evaluate()
\* is called only right after a parse() that succeeded; when parse() failed
\* there is no evaluate() call, no robustness is reported and no
\* specification is returned.
C18_ParseBeforeEvaluate ==
    /\ \A i \in 1..Len(mon.calls) :
          mon.calls[i] = "evaluate" =>
             i > 1 /\ mon.calls[i - 1] = "parse" /\ mon.parse = "ok"
    /\ mon.parse = "failed" =>
          /\ \A i \in 1..Len(mon.calls) : mon.calls[i] # "evaluate"
          /\ ~mon.rob
          /\ mon.pc \in {"exited", "raised"}
    /\ (mon.rob \/ (mon.prog = "create" /\ mon.pc = "returned")) => mon.parse = "ok"

\* The monitor read eight lines, parse() failed and the program exited
C18_Witness ==
    /\ mon.prog = "monitor"
    /\ Len(mon.traces) >= 8
    /\ mon.parse = "failed"
    /\ mon.pc = "exited"

\* C21: run(duration=d) with a duration bound d, d = 0 included, executes at
\* least one full tick and ends at the end of the first tick at which the
\* elapsed time is at least d; run(duration=None) stops on cancellation only.
\* The loop has gone into a further iteration only if at the end of the
\* previous one (at now - slept, before the sleep) less than d had elapsed.
C21_StopCondition ==
    /\ sim.stop = "duration" =>
          /\ sim.duration >= 0
          /\ sim.samples >= 1
          /\ sim.now - sim.start_time >= sim.duration
    /\ (sim.duration >= 0 /\ sim.cycle > 0 /\ sim.stop # "duration") =>
          (sim.now - sim.slept) - sim.start_time < sim.duration
    /\ sim.duration = -1 => sim.stop \in {"none", "interrupt"}

\* C22: a failed sensor write is logged with its attempted value and never
\* silently dropped.  For every value whose register write raised in
\* write_range_sensor, the trace holds an ERROR entry carrying that value,
\* and no violation check was made for it.
C22_FailedWriteLogged ==
    \A k \in DOMAIN fz.failed_writes :
        LET w == fz.failed_writes[k]
        IN /\ \E j \in DOMAIN fz.trace_file :
                /\ fz.trace_file[j].event = "ERROR"
                /\ fz.trace_file[j].range_sensor = w.value
           /\ \A c \in DOMAIN fz.checked :
                ~(fz.checked[c].seq_num = w.seq_num
                  /\ fz.checked[c].range_sensor = w.value)

\* C23: the step function of simulate_physics.  Every step that moves the
\* sensors with the pump state as it stands is, for some dt: with the pump
\* on, range_sensor' = max(0, range_sensor - FLOW_RATE * dt) and
\* flow_sensor' = 100; with the pump off, range_sensor' =
\* min(TANK_CAPACITY, range_sensor + 0.1 * dt) and flow_sensor' = 0.  So
\* range_sensor does not increase over a pump-on step and does not decrease
\* over a pump-off step.  (Hundredths; dt in tenths of a second.)
C23_StepFunction ==
    [][(plc'.pump_state = plc.pump_state /\ plc' # plc) =>
          /\ \E dt \in DtSet :
               IF plc.pump_state
                 THEN /\ plc'.range_sensor =
                           Max(0, plc.range_sensor - (FLOW_RATE * dt * Scale) \div 10)
                      /\ plc'.flow_sensor = 100
                 ELSE /\ plc'.range_sensor =
                           Min(TANK_CAPACITY * Scale,
                               plc.range_sensor + (dt * Scale) \div 100)
                      /\ plc'.flow_sensor = 0
          /\ plc.pump_state => plc'.range_sensor <= plc.range_sensor
          /\ ~plc.pump_state => plc'.range_sensor >= plc.range_sensor]_vars

\* The pump is off and the level has leaked back after pumping: the range is
\* off the grid of the inflow steps and below the capacity
C23_Witness ==
    /\ ~plc.pump_state /\ plc.flow_sensor = 0
    /\ plc.range_sensor < TANK_CAPACITY * Scale
    /\ plc.range_sensor % ((FLOW_RATE * Scale) \div 10) # 0

\* C24: in every reachable state of the tanksim loop the substance masses
\* stay physically meaningful: red_ml >= 0, blue_ml >= 0, red_ml + blue_ml <=
\* water_volume_ml, each concentration in [0, 1] and each colour register
\* value int(concentration * 255) in 0..255.
C24_MassesMeaningful ==
    /\ RLe(R(0), tank.red_ml)
    /\ RLe(R(0), tank.blue_ml)
    /\ RLe(RAdd(tank.red_ml, tank.blue_ml), tank.water_volume_ml)
    /\ RLe(R(0), tank.red_concentration) /\ RLe(tank.red_concentration, R(1))
    /\ RLe(R(0), tank.blue_concentration) /\ RLe(tank.blue_concentration, R(1))
    /\ RegisterValues(tank).red_RGB \in 0..255
    /\ RegisterValues(tank).blue_RGB \in 0..255

\* C25: a tanksim tick on which the doser, treatment_complete or stage read
\* returns an error response leaves the plant state unchanged
\* (water_volume_ml, red_ml, blue_ml, red_concentration, blue_concentration)
\* and emits no sample and no register write; the plant state changes only
\* on ticks that also emit a sample.
C25_FailedReadFrame ==
    [][LET Plant(t) == <<t.water_volume_ml, t.red_ml, t.blue_ml,
                         t.red_concentration, t.blue_concentration>>
       IN /\ (tank'.step = tank.step + 1 /\ tank'.io.exc = "none"
                /\ tank'.io.reads \in {"doser_error", "complete_error", "stage_error"})
               => /\ Plant(tank') = Plant(tank)
                  /\ tank'.last = "skipped" /\ ~tank'.wrote
          /\ Plant(tank') # Plant(tank) => tank'.last = "sample"]_vars

\* C26: evaluate_attack with the default HH, LL and penalty_factor never
\* returns a positive robustness for a non-empty trace; the robustness is 0
\* exactly when every x2 sample equals 0; and the result depends on the x2
\* series only: the same trace with any other P1 and V1 values gets the same
\* metrics.
C26_RobustnessNeverPositive ==
    atk.evaluated =>
        LET n == Len(atk.trace)
            rob == atk.metrics.robustness
        IN /\ RLe(rob, R(0))
           /\ rob = R(0) <=> \A k \in 1..n : atk.trace[k].x2 = 0
           /\ \A act \in [1..n -> ActuatorValues \X ActuatorValues] :
                evaluate_attack([k \in 1..n |->
                                   [x2 |-> atk.trace[k].x2,
                                    P1 |-> act[k][1], V1 |-> act[k][2]]])
                  = atk.metrics

\* A trace whose first sample is 0 and whose last is at or above HH, with the
\* pump off, got a negative robustness
C26_Witness ==
    /\ atk.evaluated
    /\ Len(atk.trace) >= 2
    /\ atk.trace[1].x2 = 0
    /\ atk.trace[Len(atk.trace)].x2 >= HH * Scale
    /\ atk.trace[Len(atk.trace)].P1 = 0
    /\ RLt(atk.metrics.robustness, R(0))


====
